---- MODULE Spec2Model ----
(***************************************************************************)
(* Model of the atlasBackend service: upload validation, temp storage,     *)
(* SpeciesNet inference (/analyze), the Gemini call with retry-on-503 and  *)
(* the grouping of multi-image Gemini responses (/gemini/analyze).         *)
(*                                                                         *)
(* Python values are tagged one-field records: [str |-> s], [num |-> n],   *)
(* [none |-> 0], [dict |-> m], [list |-> q], [raw |-> id].  A Python str   *)
(* is a sequence of tokens; the token " " is whitespace, "group_" stands   *)
(* for that six-character substring, every other token is one printable    *)
(* stretch of text.  A dict is a function whose DOMAIN is its key set.     *)
(***************************************************************************)
EXTENDS Integers, Sequences, FiniteSets, TLC

VARIABLES
    \* ---- label derivation on its own (main.py:74-120)
    lpc, l_response, l_index, l_label,
    \* ---- read_and_validate_image on its own (image_utils.py:18-39)
    vpc, v_file, v_result,
    \* ---- call_gemini (gemini_utils.py:37-95), run in a worker thread
    gpc,                  \* position of the call
    api_key,              \* GOOGLE_API_KEY is set and non-empty
    client_cached,        \* lru_cache of get_gemini_client holds a client
    g_pil_image,          \* the pil_image argument: "none" or an image
    max_attempts, base_backoff_seconds,   \* keyword arguments (delay in 1/10 s)
    attempt,              \* the loop variable
    last_server_error,
    g_log,                \* requests made and sleeps taken, in order
    g_outcome,            \* Return(response) or Raise(exception) of the call
    \* ---- POST /gemini/analyze/ (main.py:167-256), one request
    epc,                  \* position of the handler
    payload,              \* prompt, schema_json, files (as the handler reads them)
    schema_dict,
    index,                \* the loop variable of enumerate(payload.files)
    e_content,            \* content: validated bytes of the current upload
    grouped_results,      \* insertion-ordered dict: <<[key, summary, items]>>
    decoded,              \* history: the response_dict decoded for each index
    http,                 \* the response sent to the client
    \* ---- POST /analyze/ (speciesnet_utils.py:82-102), concurrent requests
    apc,                  \* per request: position of the handler task
    tpc,                  \* per request: position of its worker thread
    a_file,               \* per request: the upload
    a_content,            \* per request: content
    temp_image_path,      \* per request: the path persist_temp_image returned
    thread_result,        \* per request: outcome of _predict_sync
    a_http,               \* per request: the response sent to the client
    disk,                 \* the files that exist in TMP_SPECIESNET_DIR
    model_cache,          \* lru_cache of _load_speciesnet_model: None or a model
    model_loads,          \* how many times SpeciesNet(DEFAULT_MODEL) has run
    models_used           \* per request: the model its predict call ran on

label_vars == <<lpc, l_response, l_index, l_label>>
validate_vars == <<vpc, v_file, v_result>>
analyze_vars == <<apc, tpc, a_file, a_content, temp_image_path, thread_result, a_http,
                  disk, model_cache, model_loads, models_used>>
gemini_env == <<api_key, client_cached>>
gemini_args == <<g_pil_image, max_attempts, base_backoff_seconds>>
endpoint_vars == <<epc, payload, schema_dict, index, e_content, grouped_results, decoded, http>>
gemini_vars == <<gpc, gemini_env, gemini_args, attempt, last_server_error, g_log, g_outcome>>

-----------------------------------------------------------------------------
(* Python values *)

PyNone == [none |-> 0]
PyStr(s) == [str |-> s]
PyNum(n) == [num |-> n]
PyDict(m) == [dict |-> m]
PyList(q) == [list |-> q]

IsStr(x) == DOMAIN x = {"str"}
IsDict(x) == DOMAIN x = {"dict"}
IsList(x) == DOMAIN x = {"list"}

EmptyMap == [k \in {} |-> PyNone]

\* dict.get(key): the value, or None when the key is absent
DictGet(m, key) == IF key \in DOMAIN m THEN m[key] ELSE PyNone

Whitespace == {" "}

RECURSIVE LStrip(_)
LStrip(s) == IF s # <<>> /\ Head(s) \in Whitespace THEN LStrip(Tail(s)) ELSE s

RECURSIVE RStrip(_)
RStrip(s) ==
    IF s # <<>> /\ s[Len(s)] \in Whitespace THEN RStrip(SubSeq(s, 1, Len(s) - 1)) ELSE s

\* str.strip()
Strip(s) == RStrip(LStrip(s))

-----------------------------------------------------------------------------
(* main.py: group label derivation *)

GROUP_LABEL_FIELDS ==
    <<"category_label", "group_label", "label", "category",
      "cluster", "species", "name", "title">>

\* isinstance(value, str) and value.strip()
FieldMatches(value) == IsStr(value) /\ Strip(value.str) # <<>>

FieldMatchesNoStrip(value) == IsStr(value) /\ value.str # <<>>

RECURSIVE ScanFields(_, _)
ScanFields(candidate, i) ==
    IF i > Len(GROUP_LABEL_FIELDS) THEN PyNone
    ELSE LET value == DictGet(candidate, GROUP_LABEL_FIELDS[i])
         IN  IF FieldMatches(value) THEN PyStr(Strip(value.str))
             ELSE ScanFields(candidate, i + 1)

RECURSIVE ScanFieldsReversed(_, _)
ScanFieldsReversed(candidate, i) ==
    IF i < 1 THEN PyNone
    ELSE LET value == DictGet(candidate, GROUP_LABEL_FIELDS[i])
         IN  IF FieldMatches(value) THEN PyStr(Strip(value.str))
             ELSE ScanFieldsReversed(candidate, i - 1)

\* mutant: the candidate fields are scanned last to first
ExtractLabelLastFieldWins(candidate) ==
    ScanFieldsReversed(candidate, Len(GROUP_LABEL_FIELDS))

\* _extract_label_from_mapping(candidate), candidate the mapping of a dict
_extract_label_from_mapping(candidate) == ScanFields(candidate, 1)

\* nested_candidates: the elements of a `results` list, then a `details` dict
NestedCandidates(m) ==
    LET results == DictGet(m, "results")
        details == DictGet(m, "details")
    IN  (IF IsList(results) THEN results.list ELSE <<>>)
        \o (IF IsDict(details) THEN <<details>> ELSE <<>>)

RECURSIVE ScanNested(_, _, _)
ScanNested(cands, i, fallback) ==
    IF i > Len(cands) THEN fallback
    ELSE LET nested_label == IF IsDict(cands[i])
                             THEN _extract_label_from_mapping(cands[i].dict)
                             ELSE PyNone
         IN  IF nested_label # PyNone THEN nested_label
             ELSE ScanNested(cands, i + 1, fallback)

\* _derive_group_label(response_dict, fallback), response_dict a dict's mapping
_derive_group_label(m, fallback) ==
    LET direct_label == _extract_label_from_mapping(m)
    IN  IF direct_label # PyNone THEN direct_label
        ELSE ScanNested(NestedCandidates(m), 1, fallback)

\* f"group_{index + 1}"
FallbackLabel(idx) == PyStr(<<"group_", ToString(idx + 1)>>)

-----------------------------------------------------------------------------
(* outcomes of a call: a returned value or a raised exception *)

Return(v) == [ret |-> v]
Raise(e) == [exc |-> e]
Returned(o) == DOMAIN o = {"ret"}
Raised(o) == DOMAIN o = {"exc"}

NoHeaders == [k \in {} |-> ""]

HTTPException(status_code, detail, headers) ==
    [cls |-> "HTTPException", status_code |-> status_code, detail |-> detail,
     headers |-> headers]

-----------------------------------------------------------------------------
(* helpers/config.py, helpers/image_utils.py: upload validation *)

ALLOWED_TYPES == {"image/jpeg", "image/png", "image/webp"}
MAX_FILE_SIZE == 5 * 1024 * 1024

\* imghdr.what(None, h): the format named by the leading bytes, "" for None
ImghdrWhat(header) ==
    CASE header \in {"FFD8..JFIF", "FFD8..Exif"} -> "jpeg"
      [] header = "89PNG" -> "png"
      [] header = "RIFF..WEBP" -> "webp"
      [] header = "GIF89a" -> "gif"
      [] header = "BM" -> "bmp"
      [] OTHER -> ""

is_valid_image_signature(file_bytes) ==
    ImghdrWhat(file_bytes.header) \in {"jpeg", "png", "webp"}

\* mutant: the size test is >= instead of >
ValidateSizeOffByOne(file) ==
    IF file.content_type \notin ALLOWED_TYPES
    THEN Raise(HTTPException(400, "Invalid file type. Only JPG, PNG, WEBP allowed.", NoHeaders))
    ELSE LET content == file.content
         IN  IF content.len >= MAX_FILE_SIZE
             THEN Raise(HTTPException(400, "File too large. Maximum size is 5MB.", NoHeaders))
             ELSE IF ~is_valid_image_signature(content)
             THEN Raise(HTTPException(400, "Invalid image file signature.", NoHeaders))
             ELSE Return(content)

\* read_and_validate_image(file); content = await file.read()
read_and_validate_image(file) ==
    IF file.content_type \notin ALLOWED_TYPES
    THEN Raise(HTTPException(400, "Invalid file type. Only JPG, PNG, WEBP allowed.", NoHeaders))
    ELSE LET content == file.content
         IN  IF content.len > MAX_FILE_SIZE
             THEN Raise(HTTPException(400, "File too large. Maximum size is 5MB.", NoHeaders))
             ELSE IF ~is_valid_image_signature(content)
             THEN Raise(HTTPException(400, "Invalid image file signature.", NoHeaders))
             ELSE Return(content)

\* ---- inputs of the validation
ContentTypes == ALLOWED_TYPES \cup {"image/gif", "text/plain", "<none>"}
Headers == {"FFD8..JFIF", "FFD8..Exif", "89PNG", "RIFF..WEBP", "GIF89a", "BM", "plain"}
MinHeaderLen == 12
Lengths == {MinHeaderLen, MAX_FILE_SIZE - 1, MAX_FILE_SIZE, MAX_FILE_SIZE + 1}

\* a blob: its leading bytes, its length, and the rest of its bytes (body)
Blobs ==
    [header : Headers, len : Lengths, body : {"b1", "b2"}]
    \cup {[header |-> "", len |-> 0, body |-> ""]}

Uploads == [content_type : ContentTypes, content : Blobs, filename : {"a.png"}]

-----------------------------------------------------------------------------
(* helpers/gemini_utils.py: the Gemini call *)

GEMINI_UNAVAILABLE_MESSAGE == "Gemini model overloaded. Please try again later."
API_KEY_MESSAGE == "GOOGLE_API_KEY environment variable is required for Gemini endpoint."

\* getattr(exc, "status_code", None) of an exception without that attribute
NoStatusCode == 0

Exception(cls, msg, status_code) == [cls |-> cls, msg |-> msg, status_code |-> status_code]
RuntimeError(msg) == Exception("RuntimeError", msg, NoStatusCode)
ServerError(status_code, msg) == Exception("ServerError", msg, status_code)

\* isinstance(exc, RuntimeError): RuntimeError and its subclasses
IsRuntimeError(exc) == exc.cls \in {"RuntimeError", "NotImplementedError"}
IsServerError(exc) == exc.cls = "ServerError"

is_gemini_unavailable_error(exc) ==
    IsRuntimeError(exc) /\ exc.msg = GEMINI_UNAVAILABLE_MESSAGE

DEFAULT_MAX_ATTEMPTS == 3
\* base_backoff_seconds = 1.5, in tenths of a second
DEFAULT_BASE_BACKOFF == 15

RequestEvent(n, answer) == [ev |-> "request", attempt |-> n, answer |-> answer]
SleepEvent(d) == [ev |-> "sleep", delay |-> d]

\* client = get_gemini_client()
GetGeminiClient ==
    /\ gpc = "get_client"
    /\ IF client_cached
       THEN /\ gpc' = "assemble"
            /\ UNCHANGED <<client_cached, g_outcome>>
       ELSE IF ~api_key
       THEN /\ g_outcome' = Raise(RuntimeError(API_KEY_MESSAGE))
            /\ gpc' = "done"
            /\ UNCHANGED client_cached
       ELSE /\ client_cached' = TRUE
            /\ gpc' = "assemble"
            /\ UNCHANGED g_outcome
    /\ UNCHANGED <<api_key, gemini_args, attempt, last_server_error, g_log>>
    /\ UNCHANGED <<label_vars, validate_vars, endpoint_vars, analyze_vars>>

\* range(1, max_attempts + 1) is empty: the loop body never runs
LoopExhausted(n) == n > max_attempts

\* parts, content, last_server_error = None, and entry into the for loop;
\* _pil_image_to_part (PIL's save) may raise
AssembleParts ==
    /\ gpc = "assemble"
    /\ \E saved \in BOOLEAN :
          /\ g_pil_image = "none" => saved
          /\ IF ~saved
             THEN /\ g_outcome' = Raise(Exception("OSError", "cannot write image", NoStatusCode))
                  /\ gpc' = "done"
                  /\ UNCHANGED <<attempt, last_server_error>>
             ELSE /\ last_server_error' = PyNone
                  /\ attempt' = 1
                  /\ IF LoopExhausted(1)
                     THEN /\ g_outcome' = Raise(RuntimeError(GEMINI_UNAVAILABLE_MESSAGE))
                          /\ gpc' = "done"
                     ELSE /\ gpc' = "attempt"
                          /\ UNCHANGED g_outcome
    /\ UNCHANGED <<gemini_env, gemini_args, g_log>>
    /\ UNCHANGED <<label_vars, validate_vars, endpoint_vars, analyze_vars>>

\* mutant: the call gives up one attempt early
EarlyLastAttempt(n) == n >= max_attempts - 1

\* attempt >= max_attempts
IsLastAttempt(n) == n >= max_attempts

\* mutant: constant backoff
ConstantDelay(n) == base_backoff_seconds

\* delay_seconds = base_backoff_seconds * attempt
DelaySeconds(n) == base_backoff_seconds * n

\* mutant: every ServerError is retried
RetryAnyServerError(exc) == IsServerError(exc)

\* except genai_errors.ServerError with status_code == 503
IsRetryable(exc) == IsServerError(exc) /\ exc.status_code = 503

\* one pass of the try block: client.models.generate_content(...) answers
\* with `answer`, a returned response or a raised exception
GenerateContent(answer) ==
    /\ gpc = "attempt"
    /\ g_log' = Append(g_log, RequestEvent(attempt, answer))
    /\ IF Returned(answer)
       THEN /\ g_outcome' = answer
            /\ gpc' = "done"
            /\ UNCHANGED last_server_error
       ELSE IF ~IsRetryable(answer.exc)
       THEN /\ g_outcome' = answer
            /\ gpc' = "done"
            /\ UNCHANGED last_server_error
       ELSE /\ last_server_error' = answer.exc
            /\ IF IsLastAttempt(attempt)
               THEN /\ g_outcome' = Raise(RuntimeError(GEMINI_UNAVAILABLE_MESSAGE))
                    /\ gpc' = "done"
               ELSE /\ gpc' = "backoff"
                    /\ UNCHANGED g_outcome
    /\ UNCHANGED <<gemini_env, gemini_args, attempt>>
    /\ UNCHANGED <<label_vars, validate_vars, endpoint_vars, analyze_vars>>

\* time.sleep(delay_seconds), then the next iteration of the for loop
Backoff ==
    /\ gpc = "backoff"
    /\ g_log' = Append(g_log, SleepEvent(DelaySeconds(attempt)))
    /\ attempt' = attempt + 1
    /\ IF LoopExhausted(attempt + 1)
       THEN /\ g_outcome' = Raise(RuntimeError(GEMINI_UNAVAILABLE_MESSAGE))
            /\ gpc' = "done"
       ELSE /\ gpc' = "attempt"
            /\ UNCHANGED g_outcome
    /\ UNCHANGED <<gemini_env, gemini_args, last_server_error>>
    /\ UNCHANGED <<label_vars, validate_vars, endpoint_vars, analyze_vars>>

-----------------------------------------------------------------------------
(* main.py: POST /gemini/analyze/ *)

\* a str holding JSON text is modelled by the value it parses to, any other
\* str by an opaque id
JsonText(value) == [json |-> value]
GarbageText(id) == [garbage |-> id]
IsText(x) == DOMAIN x \in {{"json"}, {"garbage"}}

\* json.loads(text)
JsonLoads(text) ==
    IF DOMAIN text = {"json"} THEN Return(text.json)
    ELSE Raise(Exception("JSONDecodeError", "Expecting value: line 1 column 1 (char 0)", NoStatusCode))

\* an SDK response object: its `text` attribute (a str or None) and whether
\* it has model_dump, with the dict model_dump(exclude_none=True) gives
SdkResponse(text, has_model_dump, dump) ==
    [text |-> text, has_model_dump |-> has_model_dump, dump |-> dump]

\* _serialize_gemini_response(response)
_serialize_gemini_response(response) ==
    LET text_val == response.text
    IN  IF IsText(text_val)
        THEN LET parsed == JsonLoads(text_val)
             IN  IF Returned(parsed) THEN parsed.ret
                 ELSE PyDict("text" :> [rawtext |-> text_val])
        ELSE IF response.has_model_dump THEN PyDict(response.dump)
        ELSE PyDict("text" :> text_val)

DEFAULT_GROUPING_SCHEMA ==
    PyDict("type" :> PyStr(<<"object">>)
           @@ "required" :> PyList(<<PyStr(<<"category_label">>), PyStr(<<"analysis">>)>>))

\* prepare_pil_image(content): PIL opens and loads the image, or 400
prepare_pil_image(bytes) ==
    IF bytes.body = "corrupt"
    THEN Raise(HTTPException(400, "Failed to decode image for Gemini.", NoHeaders))
    ELSE Return("image")

\* position of the entry of `key` in the ordered dict, 0 if absent
KeyPosition(gr, key) ==
    IF \E i \in 1..Len(gr) : gr[i].key = key
    THEN CHOOSE i \in 1..Len(gr) : gr[i].key = key
    ELSE 0

FreshEntry(key) == [key |-> key, summary |-> PyNone, items |-> <<>>]

\* mutant: grouped_results[group_key] = {...} on every image
AlwaysFreshEntry(gr, key) ==
    IF KeyPosition(gr, key) = 0 THEN Append(gr, FreshEntry(key))
    ELSE [gr EXCEPT ![KeyPosition(gr, key)] = FreshEntry(key)]

\* mutant: a new group is put in front of the groups seen so far
SetDefaultAtFront(gr, key) ==
    IF KeyPosition(gr, key) = 0 THEN <<FreshEntry(key)>> \o gr ELSE gr

\* grouped_results.setdefault(group_key, {"summary": None, "items": []})
SetDefault(gr, key) ==
    IF KeyPosition(gr, key) = 0 THEN Append(gr, FreshEntry(key)) ELSE gr

\* mutant: the summary is assigned on every image
LastSummaryWins(group_entry, response_dict) == response_dict

\* if group_entry["summary"] is None: group_entry["summary"] = response_dict
SummaryAfter(group_entry, response_dict) ==
    IF group_entry.summary = PyNone THEN response_dict ELSE group_entry.summary

\* lines 219-236: the image joins the group of its key
AddToGroup(gr, key, response_dict, item) ==
    LET gr1 == SetDefault(gr, key)
        i == KeyPosition(gr1, key)
    IN  [gr1 EXCEPT ![i] = [key |-> key,
                            summary |-> SummaryAfter(gr1[i], response_dict),
                            items |-> Append(gr1[i].items, item)]]

\* groups_payload
GroupsPayload(gr) ==
    [i \in 1..Len(gr) |-> [group |-> gr[i].key, count |-> Len(gr[i].items),
                           summary |-> gr[i].summary, items |-> gr[i].items]]

GEMINI_MODEL_NAME == "models/gemini-1.5-flash"

ErrorResponse(exc) ==
    [status_code |-> exc.status_code, detail |-> exc.detail, headers |-> exc.headers]

\* an exception no handler catches: the framework answers 500
UnhandledResponse ==
    [status_code |-> 500, detail |-> "Internal Server Error", headers |-> NoHeaders]

\* lines 199-214: the HTTPException raised for an exception of call_gemini
GeminiFailure(exc) ==
    IF IsRuntimeError(exc)
    THEN IF is_gemini_unavailable_error(exc)
         THEN HTTPException(503, GEMINI_UNAVAILABLE_MESSAGE, "Retry-After" :> "30")
         ELSE HTTPException(500, exc.msg, NoHeaders)
    ELSE HTTPException(502, "Gemini API call failed. Check server logs for details.", NoHeaders)

\* if payload.schema_json: a non-empty str
Truthy(text) == text # PyNone /\ text # GarbageText("")

\* lines 171-184
StartRequest ==
    /\ epc = "start"
    /\ IF payload.files = <<>>
       THEN /\ http' = ErrorResponse(HTTPException(400, "At least one image file is required.", NoHeaders))
            /\ epc' = "done"
            /\ UNCHANGED schema_dict
       ELSE IF ~Truthy(payload.schema_json)
       THEN /\ schema_dict' = DEFAULT_GROUPING_SCHEMA
            /\ epc' = "next_upload"
            /\ UNCHANGED http
       ELSE LET parsed == JsonLoads(payload.schema_json)
            IN  IF Raised(parsed)
                THEN /\ http' = ErrorResponse(HTTPException(400, parsed.exc.msg, NoHeaders))
                     /\ epc' = "done"
                     /\ UNCHANGED schema_dict
                ELSE IF ~IsDict(parsed.ret)
                THEN /\ http' = ErrorResponse(HTTPException(400, "Schema must deserialize to a JSON object.", NoHeaders))
                     /\ epc' = "done"
                     /\ UNCHANGED schema_dict
                ELSE /\ schema_dict' = parsed.ret
                     /\ epc' = "next_upload"
                     /\ UNCHANGED http
    /\ grouped_results' = <<>>
    /\ index' = 0
    /\ UNCHANGED <<payload, e_content, decoded, gemini_vars, label_vars, validate_vars, analyze_vars>>

\* lines 186-198: validate and decode the next upload, then hand call_gemini
\* to a worker thread (asyncio.to_thread) with its default keyword arguments
NextUpload ==
    /\ epc = "next_upload"
    /\ index < Len(payload.files)
    /\ LET upload == payload.files[index + 1]
           validated == read_and_validate_image(upload)
           pil_image == prepare_pil_image(validated.ret)
       IN  IF Raised(validated)
           THEN /\ http' = ErrorResponse(validated.exc)
                /\ epc' = "done"
                /\ UNCHANGED <<e_content, gemini_vars>>
           ELSE IF Raised(pil_image)
           THEN /\ http' = ErrorResponse(pil_image.exc)
                /\ e_content' = validated.ret
                /\ epc' = "done"
                /\ UNCHANGED gemini_vars
           ELSE /\ e_content' = validated.ret
                /\ epc' = "awaiting"
                /\ gpc' = "get_client"
                /\ g_pil_image' = pil_image.ret
                /\ max_attempts' = DEFAULT_MAX_ATTEMPTS
                /\ base_backoff_seconds' = DEFAULT_BASE_BACKOFF
                /\ attempt' = 0
                /\ last_server_error' = PyNone
                /\ g_log' = <<>>
                /\ g_outcome' = PyNone
                /\ UNCHANGED <<gemini_env, http>>
    /\ UNCHANGED <<payload, schema_dict, index, grouped_results, decoded,
                   label_vars, validate_vars, analyze_vars>>

\* lines 199-236: the awaited call has ended
HandleGeminiResult ==
    /\ epc = "awaiting"
    /\ gpc = "done"
    /\ IF Raised(g_outcome)
       THEN /\ http' = ErrorResponse(GeminiFailure(g_outcome.exc))
            /\ epc' = "done"
            /\ UNCHANGED <<index, grouped_results, decoded>>
       ELSE LET response_dict == _serialize_gemini_response(g_outcome.ret)
                upload == payload.files[index + 1]
            IN  IF ~IsDict(response_dict)
                THEN \* response_dict.get raises AttributeError
                     /\ http' = UnhandledResponse
                     /\ epc' = "done"
                     /\ decoded' = Append(decoded, response_dict)
                     /\ UNCHANGED <<index, grouped_results>>
                ELSE /\ grouped_results' =
                          AddToGroup(grouped_results,
                                     _derive_group_label(response_dict.dict, FallbackLabel(index)),
                                     response_dict,
                                     [index |-> index, filename |-> upload.filename,
                                      content_size |-> e_content.len])
                     /\ decoded' = Append(decoded, response_dict)
                     /\ index' = index + 1
                     /\ epc' = "next_upload"
                     /\ UNCHANGED http
    /\ gpc' = "idle"
    /\ UNCHANGED <<payload, schema_dict, e_content, gemini_env, gemini_args, attempt,
                   last_server_error, g_log, g_outcome, label_vars, validate_vars,
                   analyze_vars>>

\* lines 238-256
BuildResponse ==
    /\ epc = "next_upload"
    /\ index = Len(payload.files)
    /\ http' = [status_code |-> 200,
                body |-> [prompt |-> payload.prompt,
                          schema |-> schema_dict,
                          gemini_model |-> GEMINI_MODEL_NAME,
                          total_images |-> Len(payload.files),
                          groups |-> GroupsPayload(grouped_results)]]
    /\ epc' = "done"
    /\ UNCHANGED <<payload, schema_dict, index, e_content, grouped_results, decoded,
                   gemini_vars, label_vars, validate_vars, analyze_vars>>

-----------------------------------------------------------------------------
(* helpers/image_utils.py, helpers/speciesnet_utils.py: POST /analyze/ *)

Reqs == {"r1", "r2"}

\* Path(name).suffix.lower() of the file names used here
LowerSuffix(name) ==
    CASE name = "photo.PNG" -> ".png"
      [] name = "shot.webp" -> ".webp"
      [] name = "notes.txt" -> ".txt"
      [] name = "upload.jpg" -> ".jpg"
      [] OTHER -> ""

\* the suffix persist_temp_image gives the temp file
TempSuffix(original_name) ==
    LET name == IF original_name = "" THEN "upload.jpg" ELSE original_name
        suffix == IF LowerSuffix(name) = "" THEN ".jpg" ELSE LowerSuffix(name)
    IN  IF suffix \notin {".jpg", ".jpeg", ".png", ".webp"} THEN ".jpg" ELSE suffix

\* MaxNames random names; NamedTemporaryFile opens with O_EXCL, so the path it
\* creates is one that does not exist
MaxNames == 3
TempPaths(suffix) == {[name |-> n, suffix |-> suffix] : n \in 1..MaxNames}

\* mutant: the temp file is opened without O_EXCL, under any name
ReuseExistingName(suffix) == TempPaths(suffix)

\* NamedTemporaryFile(delete=False, suffix=suffix, dir=TMP_SPECIESNET_DIR):
\* the paths it can create
NamedTemporaryFile(suffix) == TempPaths(suffix) \ disk

\* label.split(";"): the segments between ";" tokens
RECURSIVE SplitSemicolon(_, _)
SplitSemicolon(s, acc) ==
    IF s = <<>> THEN <<acc>>
    ELSE IF Head(s) = ";" THEN <<acc>> \o SplitSemicolon(Tail(s), <<>>)
    ELSE SplitSemicolon(Tail(s), Append(acc, Head(s)))

NonEmptySegment(seg) == Strip(seg) # <<>>

\* extract_display_name(label)
extract_display_name(label) ==
    IF ~IsStr(label) \/ label.str = <<>> THEN PyNone
    ELSE LET parts == SelectSeq(SplitSemicolon(label.str, <<>>), NonEmptySegment)
         IN  IF parts # <<>> THEN PyStr(Strip(parts[Len(parts)])) ELSE label

AttributeError(msg) == Exception("AttributeError", msg, NoStatusCode)

\* `if not predictions`
Falsy(x) == x = PyNone \/ x = PyList(<<>>)

\* mutant: an empty predictions list is summarised as an empty summary
SummarizeAllowsEmpty(predictions_dict) ==
    IF ~IsDict(predictions_dict)
    THEN Raise(AttributeError("'NoneType' object has no attribute 'get'"))
    ELSE LET predictions == IF "predictions" \in DOMAIN predictions_dict.dict
                            THEN predictions_dict.dict["predictions"]
                            ELSE PyList(<<>>)
             first == IF Falsy(predictions) THEN EmptyMap ELSE predictions.list[1].dict
             prediction_label == DictGet(first, "prediction")
         IN  Return([prediction |-> prediction_label,
                     prediction_display_name |-> extract_display_name(prediction_label),
                     prediction_score |-> DictGet(first, "prediction_score"),
                     failures |-> DictGet(first, "failures")])

\* summarize_prediction(predictions_dict)
summarize_prediction(predictions_dict) ==
    IF ~IsDict(predictions_dict)
    THEN Raise(AttributeError("'NoneType' object has no attribute 'get'"))
    ELSE LET predictions == IF "predictions" \in DOMAIN predictions_dict.dict
                            THEN predictions_dict.dict["predictions"]
                            ELSE PyList(<<>>)
         IN  IF Falsy(predictions)
             THEN Raise(RuntimeError("SpeciesNet returned no predictions."))
             ELSE LET first == predictions.list[1].dict
                      prediction_label == DictGet(first, "prediction")
                  IN  Return([prediction |-> prediction_label,
                              prediction_display_name |-> extract_display_name(prediction_label),
                              prediction_score |-> DictGet(first, "prediction_score"),
                              failures |-> DictGet(first, "failures")])

INFERENCE_FAILED == "SpeciesNet inference failed. Check server logs for details."

\* mutant: the temp file is released only when inference succeeded
ReleaseOnSuccessOnly(r, failed) ==
    IF failed \/ temp_image_path[r] = PyNone THEN disk ELSE disk \ {temp_image_path[r]}

\* finally: temp_image_path.unlink(missing_ok=True)
DiskAfterRelease(r, failed) ==
    IF temp_image_path[r] = PyNone THEN disk ELSE disk \ {temp_image_path[r]}

\* lines 83-87: validation, persist_temp_image, and the hand-over of
\* _predict_sync to a worker thread; tmp_file.write may fail after the file
\* has been created
ValidateAndPersist(r) ==
    /\ apc[r] = "start"
    /\ LET validated == read_and_validate_image(a_file[r])
       IN  IF Raised(validated)
           THEN /\ a_http' = [a_http EXCEPT ![r] = ErrorResponse(validated.exc)]
                /\ apc' = [apc EXCEPT ![r] = "done"]
                /\ UNCHANGED <<a_content, temp_image_path, tpc, disk>>
           ELSE \E path \in NamedTemporaryFile(TempSuffix(a_file[r].filename)) :
                \E written \in BOOLEAN :
                    /\ a_content' = [a_content EXCEPT ![r] = validated.ret]
                    /\ disk' = disk \cup {path}
                    /\ IF written
                       THEN /\ temp_image_path' = [temp_image_path EXCEPT ![r] = path]
                            /\ apc' = [apc EXCEPT ![r] = "awaiting"]
                            /\ tpc' = [tpc EXCEPT ![r] = "lookup"]
                            /\ UNCHANGED a_http
                       ELSE /\ a_http' = [a_http EXCEPT ![r] = UnhandledResponse]
                            /\ apc' = [apc EXCEPT ![r] = "done"]
                            /\ UNCHANGED <<temp_image_path, tpc>>
    /\ UNCHANGED <<a_file, thread_result, model_cache, model_loads, models_used>>
    /\ UNCHANGED <<label_vars, validate_vars, gemini_vars, endpoint_vars>>

\* get_speciesnet_model(): the lru_cache lookup of _load_speciesnet_model
LookupModel(r) ==
    /\ tpc[r] = "lookup"
    /\ IF model_cache # PyNone
       THEN /\ models_used' = [models_used EXCEPT ![r] = model_cache]
            /\ tpc' = [tpc EXCEPT ![r] = "predict"]
       ELSE /\ tpc' = [tpc EXCEPT ![r] = "constructing"]
            /\ UNCHANGED models_used
    /\ UNCHANGED <<apc, a_file, a_content, temp_image_path, thread_result, a_http,
                   disk, model_cache, model_loads>>
    /\ UNCHANGED <<label_vars, validate_vars, gemini_vars, endpoint_vars>>

\* the cache miss: SpeciesNet(DEFAULT_MODEL) runs outside any lock, then the
\* result is stored unless the key has been stored meanwhile
ConstructModel(r) ==
    /\ tpc[r] = "constructing"
    /\ \E loaded \in BOOLEAN :
          IF loaded
          THEN /\ model_loads' = model_loads + 1
               /\ model_cache' = IF model_cache = PyNone THEN PyNum(model_loads + 1)
                                  ELSE model_cache
               /\ models_used' = [models_used EXCEPT ![r] = PyNum(model_loads + 1)]
               /\ tpc' = [tpc EXCEPT ![r] = "predict"]
               /\ UNCHANGED thread_result
          ELSE /\ thread_result' = [thread_result EXCEPT ![r] =
                                       Raise(Exception("OSError", "cannot load model", NoStatusCode))]
               /\ tpc' = [tpc EXCEPT ![r] = "finished"]
               /\ UNCHANGED <<model_loads, model_cache, models_used>>
    /\ UNCHANGED <<apc, a_file, a_content, temp_image_path, a_http, disk>>
    /\ UNCHANGED <<label_vars, validate_vars, gemini_vars, endpoint_vars>>

\* model.predict(instances_dict=..., run_mode="single_thread", ...)
Predict(r, outcome) ==
    /\ tpc[r] = "predict"
    /\ thread_result' = [thread_result EXCEPT ![r] = outcome]
    /\ tpc' = [tpc EXCEPT ![r] = "finished"]
    /\ UNCHANGED <<apc, a_file, a_content, temp_image_path, a_http, disk,
                   model_cache, model_loads, models_used>>
    /\ UNCHANGED <<label_vars, validate_vars, gemini_vars, endpoint_vars>>

\* lines 87-102: the await returns or raises; summarize_prediction; the
\* except and finally clauses; the response
FinishAnalyze(r) ==
    /\ apc[r] = "awaiting"
    /\ tpc[r] = "finished"
    /\ LET summary == IF Raised(thread_result[r]) THEN thread_result[r]
                      ELSE summarize_prediction(thread_result[r].ret)
       IN  /\ disk' = DiskAfterRelease(r, Raised(summary))
           /\ a_http' = [a_http EXCEPT ![r] =
                  IF Raised(summary)
                  THEN ErrorResponse(HTTPException(500, INFERENCE_FAILED, NoHeaders))
                  ELSE [status_code |-> 200,
                        body |-> [filename |-> a_file[r].filename,
                                  content_size |-> a_content[r].len,
                                  speciesnet |-> summary.ret]]]
    /\ apc' = [apc EXCEPT ![r] = "done"]
    /\ tpc' = [tpc EXCEPT ![r] = "idle"]
    /\ UNCHANGED <<a_file, a_content, temp_image_path, thread_result,
                   model_cache, model_loads, models_used>>
    /\ UNCHANGED <<label_vars, validate_vars, gemini_vars, endpoint_vars>>

\* the task is cancelled while it awaits the thread (the client went away):
\* CancelledError passes the except clause, the finally clause runs, and the
\* worker thread runs on
CancelAnalyze(r) ==
    /\ apc[r] = "awaiting"
    /\ disk' = DiskAfterRelease(r, TRUE)
    /\ apc' = [apc EXCEPT ![r] = "cancelled"]
    /\ UNCHANGED <<tpc, a_file, a_content, temp_image_path, thread_result, a_http,
                   model_cache, model_loads, models_used>>
    /\ UNCHANGED <<label_vars, validate_vars, gemini_vars, endpoint_vars>>

\* ---- inputs of the label derivation
MaxResults == 2
MaxIndex == 1

TopValues == {PyNum(7), PyStr(<<" ">>), PyStr(<<"fox", " ">>), PyStr(<<"cat">>)}

FieldNames == {GROUP_LABEL_FIELDS[i] : i \in 1..Len(GROUP_LABEL_FIELDS)}

\* top-level label fields: none, one or two of the candidate fields present
TopMappings ==
    UNION {[D -> TopValues] : D \in {{a, b} : a, b \in FieldNames} \cup {{}}}

\* ... and none or one of them present, for the inputs that also nest
TopMappingsSmall ==
    UNION {[D -> TopValues] : D \in {{a} : a \in FieldNames} \cup {{}}}

NestedElements ==
    {PyNum(7),
     PyDict("species" :> PyStr(<<" ", "owl">>)),
     PyDict("name" :> PyStr(<<>>) @@ "analysis" :> PyStr(<<"text">>))}

ResultsValues ==
    {PyDict("label" :> PyStr(<<"elk">>))}
    \cup {PyList(q) : q \in UNION {[1..n -> NestedElements] : n \in 0..MaxResults}}

DetailsValues == {PyStr(<<"elk">>), PyDict("title" :> PyStr(<<"elk">>))}

WithKey(m, key, vals) == {m} \cup {m @@ (key :> x) : x \in vals}

LabelInputs ==
    TopMappings \cup
    UNION {WithKey(m2, "details", DetailsValues) :
              m2 \in UNION {WithKey(m, "results", ResultsValues) : m \in TopMappingsSmall}}

\* ---- inputs of the Gemini call and of /gemini/analyze
MaxAttempts == 4
MaxFiles == 3

Messages == {"m1", "m2"}

Fox1 == PyDict("category_label" :> PyStr(<<"fox">>) @@ "analysis" :> PyStr(<<"first">>))
Fox2 == PyDict("label" :> PyStr(<<" ", "fox">>) @@ "analysis" :> PyStr(<<"second">>))
NoLabel == PyDict("analysis" :> PyStr(<<"none">>))
Group2 == PyDict("category_label" :> PyStr(<<"group_", "2">>))
CatDetails == "details" :> PyDict("species" :> PyStr(<<"cat">>))

\* what the remote API can return
SampleResponses ==
    {SdkResponse(JsonText(d), TRUE, EmptyMap) : d \in {Fox1, Fox2, NoLabel, Group2}}
    \cup {SdkResponse(PyNone, TRUE, CatDetails),
          SdkResponse(JsonText(PyList(<<PyNum(7)>>)), TRUE, EmptyMap),
          SdkResponse(GarbageText("g1"), TRUE, EmptyMap),
          SdkResponse(PyNone, FALSE, EmptyMap)}

\* what the remote API can raise
SampleErrors ==
    {ServerError(503, "m1"), ServerError(500, "m1"), ServerError(NoStatusCode, "m1"),
     Exception("ClientError", "m1", 400)}
    \cup {RuntimeError(m) : m \in Messages}
    \cup {Exception("ConnectionError", m, NoStatusCode) : m \in Messages}

ApiAnswers == {Return(r) : r \in SampleResponses} \cup {Raise(e) : e \in SampleErrors}

ValidBlob == [header |-> "89PNG", len |-> MinHeaderLen, body |-> "b1"]
EndpointUploads ==
    {[content_type |-> "image/png", content |-> ValidBlob, filename |-> "a.png"],
     [content_type |-> "image/png", content |-> [ValidBlob EXCEPT !.body = "corrupt"],
      filename |-> "b.png"],
     [content_type |-> "image/gif", content |-> [ValidBlob EXCEPT !.header = "GIF89a"],
      filename |-> "c.gif"]}

SchemaInputs ==
    {PyNone, JsonText(PyDict("type" :> PyStr(<<"object">>))), JsonText(PyNum(7)),
     GarbageText("{")}

Payloads ==
    [prompt : {"describe"}, schema_json : SchemaInputs,
     files : UNION {[1..n -> EndpointUploads] : n \in 0..MaxFiles}]

LabelIdle == lpc = "idle" /\ l_response = EmptyMap /\ l_index = 0 /\ l_label = PyNone
ValidateIdle == vpc = "idle" /\ v_file = PyNone /\ v_result = PyNone
GeminiIdle ==
    /\ gpc = "idle" /\ api_key = TRUE /\ client_cached = FALSE
    /\ g_pil_image = "none" /\ max_attempts = DEFAULT_MAX_ATTEMPTS
    /\ base_backoff_seconds = DEFAULT_BASE_BACKOFF
    /\ attempt = 0 /\ last_server_error = PyNone /\ g_log = <<>> /\ g_outcome = PyNone
EndpointIdle ==
    /\ epc = "idle" /\ payload = PyNone /\ schema_dict = PyNone /\ index = 0
    /\ e_content = PyNone /\ grouped_results = <<>> /\ decoded = <<>> /\ http = PyNone

AnalyzeIdle ==
    /\ apc = [r \in Reqs |-> "idle"] /\ tpc = [r \in Reqs |-> "idle"]
    /\ a_file = [r \in Reqs |-> PyNone] /\ a_content = [r \in Reqs |-> PyNone]
    /\ temp_image_path = [r \in Reqs |-> PyNone]
    /\ thread_result = [r \in Reqs |-> PyNone] /\ a_http = [r \in Reqs |-> PyNone]
    /\ disk = {} /\ model_cache = PyNone /\ model_loads = 0
    /\ models_used = [r \in Reqs |-> PyNone]

vars == <<label_vars, validate_vars, gemini_vars, endpoint_vars, analyze_vars>>

InitLabel ==
    /\ lpc = "input"
    /\ l_response \in LabelInputs
    /\ l_index \in 0..MaxIndex
    /\ l_label = PyNone
    /\ ValidateIdle /\ GeminiIdle /\ EndpointIdle /\ AnalyzeIdle

\* group_key = _derive_group_label(response_dict, f"group_{index + 1}")
DeriveLabel ==
    /\ lpc = "input"
    /\ l_label' = _derive_group_label(l_response, FallbackLabel(l_index))
    /\ lpc' = "derived"
    /\ UNCHANGED <<l_response, l_index, validate_vars, gemini_vars, endpoint_vars, analyze_vars>>

NextLabel == DeriveLabel

SpecLabel == InitLabel /\ [][NextLabel]_vars

InitValidate ==
    /\ vpc = "input"
    /\ v_file \in Uploads
    /\ v_result = PyNone
    /\ LabelIdle /\ GeminiIdle /\ EndpointIdle /\ AnalyzeIdle

Validate ==
    /\ vpc = "input"
    /\ v_result' = read_and_validate_image(v_file)
    /\ vpc' = "done"
    /\ UNCHANGED <<v_file, label_vars, gemini_vars, endpoint_vars, analyze_vars>>

NextValidate == Validate

SpecValidate == InitValidate /\ [][NextValidate]_vars

\* ---- call_gemini on its own, for any attempt ceiling and backoff base
BackoffChoices == {1, DEFAULT_BASE_BACKOFF}

InitCallGemini ==
    /\ gpc = "get_client"
    /\ api_key \in BOOLEAN
    /\ client_cached \in BOOLEAN
    /\ client_cached => api_key
    /\ g_pil_image \in {"none", "image"}
    /\ max_attempts \in 0..MaxAttempts
    /\ base_backoff_seconds \in BackoffChoices
    /\ attempt = 0 /\ last_server_error = PyNone /\ g_log = <<>> /\ g_outcome = PyNone
    /\ LabelIdle /\ ValidateIdle /\ EndpointIdle /\ AnalyzeIdle

NextCallGemini ==
    \/ GetGeminiClient
    \/ AssembleParts
    \/ \E answer \in ApiAnswers : GenerateContent(answer)
    \/ Backoff

SpecCallGemini == InitCallGemini /\ [][NextCallGemini]_vars

\* ---- one POST /gemini/analyze/ request in a fresh process
InitGeminiEndpoint ==
    /\ epc = "start"
    /\ payload \in Payloads
    /\ schema_dict = PyNone /\ index = 0 /\ e_content = PyNone
    /\ grouped_results = <<>> /\ decoded = <<>> /\ http = PyNone
    /\ gpc = "idle" /\ api_key \in BOOLEAN /\ client_cached = FALSE
    /\ g_pil_image = "none" /\ max_attempts = DEFAULT_MAX_ATTEMPTS
    /\ base_backoff_seconds = DEFAULT_BASE_BACKOFF
    /\ attempt = 0 /\ last_server_error = PyNone /\ g_log = <<>> /\ g_outcome = PyNone
    /\ LabelIdle /\ ValidateIdle /\ AnalyzeIdle

NextGeminiEndpoint ==
    \/ StartRequest
    \/ NextUpload
    \/ GetGeminiClient
    \/ AssembleParts
    \/ \E answer \in ApiAnswers : GenerateContent(answer)
    \/ Backoff
    \/ HandleGeminiResult
    \/ BuildResponse

SpecGeminiEndpoint == InitGeminiEndpoint /\ [][NextGeminiEndpoint]_vars

\* ---- concurrent POST /analyze/ requests in a fresh process
Wolf == PyDict("prediction" :> PyStr(<<"a", ";", " ", "b", " ", ";", "Canis lupus">>)
               @@ "prediction_score" :> PyNum(9))

\* what SpeciesNet.predict can return or raise
PredictOutcomes ==
    {Return(PyDict("predictions" :> PyList(<<Wolf>>))),
     Return(PyDict("predictions" :> PyList(<<>>))),
     Return(PyDict(EmptyMap)),
     Return(PyNone)}
    \cup {Raise(Exception("ValueError", m, NoStatusCode)) : m \in Messages}

AnalyzeUploads ==
    {[content_type |-> "image/png", content |-> ValidBlob, filename |-> "photo.PNG"],
     [content_type |-> "image/jpeg",
      content |-> [header |-> "FFD8..JFIF", len |-> MAX_FILE_SIZE, body |-> "b2"],
      filename |-> ""],
     [content_type |-> "image/png", content |-> [ValidBlob EXCEPT !.header = "plain"],
      filename |-> "notes.txt"]}

InitAnalyze ==
    /\ apc = [r \in Reqs |-> "start"] /\ tpc = [r \in Reqs |-> "idle"]
    /\ a_file \in [Reqs -> AnalyzeUploads]
    /\ a_content = [r \in Reqs |-> PyNone]
    /\ temp_image_path = [r \in Reqs |-> PyNone]
    /\ thread_result = [r \in Reqs |-> PyNone] /\ a_http = [r \in Reqs |-> PyNone]
    /\ disk = {} /\ model_cache = PyNone /\ model_loads = 0
    /\ models_used = [r \in Reqs |-> PyNone]
    /\ LabelIdle /\ ValidateIdle /\ GeminiIdle /\ EndpointIdle

NextAnalyze ==
    \/ \E r \in Reqs : ValidateAndPersist(r)
    \/ \E r \in Reqs : LookupModel(r)
    \/ \E r \in Reqs : ConstructModel(r)
    \/ \E r \in Reqs : \E outcome \in PredictOutcomes : Predict(r, outcome)
    \/ \E r \in Reqs : FinishAnalyze(r)
    \/ \E r \in Reqs : CancelAnalyze(r)

SpecAnalyze == InitAnalyze /\ [][NextAnalyze]_vars

-----------------------------------------------------------------------------
(* C9: the label a decoded response is given *)

\* the first candidate field of mapping m whose value satisfies Matches
HasMatch(m, Matches(_)) ==
    \E i \in 1..Len(GROUP_LABEL_FIELDS) : Matches(DictGet(m, GROUP_LABEL_FIELDS[i]))

FirstMatch(m, Matches(_)) ==
    LET i == CHOOSE i \in 1..Len(GROUP_LABEL_FIELDS) :
                 /\ Matches(DictGet(m, GROUP_LABEL_FIELDS[i]))
                 /\ \A j \in 1..(i - 1) : ~Matches(DictGet(m, GROUP_LABEL_FIELDS[j]))
    IN  DictGet(m, GROUP_LABEL_FIELDS[i]).str

Identity(s) == s

\* the label the rule "top level, then results[] in order, then details, then
\* group_<position>" gives, for a given notion of a matching value and a given
\* normalisation of the matched string
RuleLabel(m, idx, Matches(_), Norm(_)) ==
    LET results == DictGet(m, "results")
        details == DictGet(m, "details")
        inResults == IF IsList(results)
                     THEN {k \in 1..Len(results.list) :
                             /\ IsDict(results.list[k])
                             /\ HasMatch(results.list[k].dict, Matches)}
                     ELSE {}
        firstK == CHOOSE k \in inResults : \A k2 \in inResults : k <= k2
    IN  IF HasMatch(m, Matches) THEN PyStr(Norm(FirstMatch(m, Matches)))
        ELSE IF inResults # {} THEN PyStr(Norm(FirstMatch(results.list[firstK].dict, Matches)))
        ELSE IF IsDict(details) /\ HasMatch(details.dict, Matches)
             THEN PyStr(Norm(FirstMatch(details.dict, Matches)))
        ELSE PyStr(<<"group_", ToString(idx + 1)>>)

\* C9 (as stated): the label is the first non-empty string of the candidate
\* fields at the top level, else of the dict elements of `results` in order,
\* else of `details`, else group_<1-based position>.
C9_LabelIsFirstNonEmptyString ==
    lpc = "derived" =>
        l_label = RuleLabel(l_response, l_index, FieldMatchesNoStrip, Identity)

\* C9 (amended): the same rule, where a value matches when it is a string that
\* is non-empty after stripping surrounding whitespace, and the label is the
\* stripped string.
C9_LabelIsFirstNonBlankStringStripped ==
    lpc = "derived" =>
        l_label = RuleLabel(l_response, l_index, FieldMatches, Strip)

\* a label found in the second element of `results` after a blank top-level
\* field and a first element with no match, its whitespace stripped
C9_Witness ==
    /\ lpc = "derived"
    /\ \E f \in FieldNames : f \in DOMAIN l_response /\ l_response[f] = PyStr(<<" ">>)
    /\ ~HasMatch(l_response, FieldMatches)
    /\ IsList(DictGet(l_response, "results"))
    /\ Len(l_response["results"].list) = 2
    /\ l_response["results"].list[1] # l_response["results"].list[2]
    /\ l_label = PyStr(<<"owl">>)

-----------------------------------------------------------------------------
(* C10: what read_and_validate_image accepts *)

Acceptable(file) ==
    /\ file.content_type \in {"image/jpeg", "image/png", "image/webp"}
    /\ file.content.len <= 5 * 1024 * 1024
    /\ ImghdrWhat(file.content.header) \in {"jpeg", "png", "webp"}

\* C10: the uploaded bytes are returned unchanged exactly when the declared type
\* is allowed, the length is at most 5 MiB and the signature is JPEG, PNG or
\* WEBP; every other upload fails with a 400 client error.
C10_ValidateAcceptsExactly ==
    vpc = "done" =>
        /\ Acceptable(v_file) => v_result = Return(v_file.content)
        /\ ~Acceptable(v_file) =>
              /\ Raised(v_result)
              /\ v_result.exc.cls = "HTTPException"
              /\ v_result.exc.status_code = 400

\* a blob of exactly the ceiling's length with an allowed type and signature
\* has been returned
C10_Witness ==
    /\ vpc = "done"
    /\ v_file.content.len = MAX_FILE_SIZE
    /\ Returned(v_result)
    /\ v_result.ret = v_file.content

-----------------------------------------------------------------------------
(* C1: the temp file of /analyze *)

Completed(pc) == pc \in {"done", "cancelled"}

\* C1: whenever a call of analyze_speciesnet_upload for which persist_temp_image
\* returned a path completes (with a summary, with the 500 of a failed, None or
\* empty inference, or cancelled), the file at that path does not exist.
C1_TempFileRemovedOnExit ==
    [][\A r \in Reqs :
          (/\ temp_image_path[r] # PyNone
           /\ ~Completed(apc[r])
           /\ Completed(apc'[r]))
          => temp_image_path[r] \notin disk']_vars

\* a request whose inference returned None has answered 500 and its file is gone
C1_Witness ==
    \E r \in Reqs :
        /\ apc[r] = "done"
        /\ temp_image_path[r] # PyNone
        /\ thread_result[r] = Return(PyNone)
        /\ a_http[r].status_code = 500
        /\ temp_image_path[r] \notin disk

-----------------------------------------------------------------------------
(* C2, C3, C4: the retry loop of call_gemini *)

IsRequest(e) == e.ev = "request"
IsSleep(e) == e.ev = "sleep"
Requests == SelectSeq(g_log, IsRequest)
Sleeps == SelectSeq(g_log, IsSleep)

Is503(answer) ==
    Raised(answer) /\ answer.exc.cls = "ServerError" /\ answer.exc.status_code = 503

\* C2: when every attempt is answered with a 503 server error, the call makes
\* exactly max_attempts requests and then raises the unavailable error, a
\* RuntimeError that is_gemini_unavailable_error recognises.
C2_Always503RaisesUnavailable ==
    (/\ gpc = "done"
     /\ Requests # <<>>
     /\ \A i \in 1..Len(Requests) : Is503(Requests[i].answer))
    => /\ Len(Requests) = max_attempts
       /\ Raised(g_outcome)
       /\ g_outcome.exc.cls = "RuntimeError"
       /\ g_outcome.exc.msg = GEMINI_UNAVAILABLE_MESSAGE
       /\ is_gemini_unavailable_error(g_outcome.exc)

\* three 503 answers under the default ceiling of three, then the error
C2_Witness ==
    /\ gpc = "done"
    /\ max_attempts = 3
    /\ Len(Requests) = 3
    /\ \A i \in 1..3 : Is503(Requests[i].answer)
    /\ Raised(g_outcome)

\* C3: when the first k attempts (k < max_attempts) are answered 503 and
\* attempt k+1 returns a response, the call returns that response, and the log
\* is request 1, sleep base*1, ..., request k, sleep base*k, request k+1: k
\* sleeps of strictly increasing delay, none after the last attempt.
C3_RetriesThenReturns ==
    (gpc = "done" /\ Requests # <<>> /\ Returned(Requests[Len(Requests)].answer))
    => LET k == Len(Requests) - 1
       IN  /\ k < max_attempts
           /\ g_outcome = Requests[k + 1].answer
           /\ Len(Sleeps) = k
           /\ Len(g_log) = 2 * k + 1
           /\ \A i \in 1..k :
                 /\ g_log[2 * i - 1] = RequestEvent(i, g_log[2 * i - 1].answer)
                 /\ Is503(g_log[2 * i - 1].answer)
                 /\ g_log[2 * i] = SleepEvent(base_backoff_seconds * i)
           /\ g_log[2 * k + 1] = RequestEvent(k + 1, g_outcome)
           /\ \A i, j \in 1..k : i < j => Sleeps[i].delay < Sleeps[j].delay

\* two 503 answers, two sleeps, then a response on the third attempt
C3_Witness ==
    /\ gpc = "done"
    /\ Returned(g_outcome)
    /\ Len(Requests) = 3
    /\ Len(Sleeps) = 2
    /\ base_backoff_seconds = DEFAULT_BASE_BACKOFF

\* C4: an error other than a 503 server error, raised on any attempt, ends the
\* call at that attempt: it is the last event of the log (no sleep, no further
\* request) and it is what the call raises, unchanged.
C4_OtherErrorsPropagate ==
    \A i \in 1..Len(g_log) :
        (IsRequest(g_log[i]) /\ Raised(g_log[i].answer) /\ ~Is503(g_log[i].answer))
        => /\ i = Len(g_log)
           /\ gpc \in {"done", "idle"}
           /\ g_outcome = g_log[i].answer

\* a server error of another status on the second attempt, after one retry
C4_Witness ==
    /\ gpc = "done"
    /\ Len(Requests) = 2
    /\ Raised(g_outcome)
    /\ g_outcome.exc.cls = "ServerError"
    /\ g_outcome.exc.status_code # 503

-----------------------------------------------------------------------------
(* C5, C6: how /gemini/analyze answers a failed LLM call *)

\* the request ended because the call for the current image raised
LlmCallFailed == epc = "done" /\ Raised(g_outcome)

\* sustained overload: every attempt up to the ceiling was answered 503
RetriesExhausted ==
    /\ Len(Requests) = max_attempts
    /\ \A i \in 1..Len(Requests) : Is503(Requests[i].answer)

\* the local configuration error: no credential, so no client and no request
MissingCredential == ~api_key /\ g_log = <<>>

\* C5: a failed LLM call is answered 503 with a Retry-After header when the
\* retries were exhausted by overload, 500 when the credential is missing, and
\* 502 for any other failure of the call.
C5_StatusByFailureKind ==
    LlmCallFailed =>
        IF RetriesExhausted
        THEN http.status_code = 503 /\ "Retry-After" \in DOMAIN http.headers
        ELSE IF MissingCredential THEN http.status_code = 500
        ELSE http.status_code = 502

\* the exception the remote API raised on the last request of the call
EngineRaised ==
    /\ LlmCallFailed
    /\ g_log # <<>>
    /\ IsRequest(g_log[Len(g_log)])
    /\ g_log[Len(g_log)].answer = g_outcome

\* C6: the error response for a failure of the LLM call does not depend on the
\* text of the exception the engine raised: the same exception with any other
\* message is answered with the identical response.
C6_ErrorBodyIndependentOfText ==
    EngineRaised =>
        \A m \in Messages :
            http = ErrorResponse(GeminiFailure([g_outcome.exc EXCEPT !.msg = m]))

-----------------------------------------------------------------------------
(* C7, C8: the groups of a successful /gemini/analyze response *)

Succeeded == epc = "done" /\ http.status_code = 200

RECURSIVE SumCounts(_, _)
SumCounts(groups, i) ==
    IF i > Len(groups) THEN 0 ELSE groups[i].count + SumCounts(groups, i + 1)

\* the places (group, position in its items) where image i is listed
PlacesOf(groups, i) ==
    {<<g, j>> \in (1..Len(groups)) \X (1..MaxFiles + 1) :
        j <= Len(groups[g].items) /\ groups[g].items[j].index = i}

\* C7: in a successful response every image index 0..N-1 is listed in exactly
\* one group, each group's count is the length of its items, and the counts
\* sum to total_images.
C7_EveryImageInExactlyOneGroup ==
    Succeeded =>
        LET groups == http.body.groups
            N == http.body.total_images
        IN  /\ N = Len(payload.files)
            /\ \A i \in 0..(N - 1) : Cardinality(PlacesOf(groups, i)) = 1
            /\ \A g \in 1..Len(groups) : groups[g].count = Len(groups[g].items)
            /\ SumCounts(groups, 1) = N

\* three images in two groups, one of them group_2 holding both an image whose
\* response named that label and the image whose synthetic label it is
C7_Witness ==
    /\ Succeeded
    /\ http.body.total_images = 3
    /\ Len(http.body.groups) = 2
    /\ \E g \in 1..2 :
          /\ http.body.groups[g].group = PyStr(<<"group_", "2">>)
          /\ http.body.groups[g].count = 2
          /\ \E j \in 1..2 : decoded[http.body.groups[g].items[j].index + 1] = NoLabel

\* C8: the summary of every group is the decoded response of the member with
\* the lowest input index, whatever the later members' responses are.
C8_SummaryIsFirstResponse ==
    Succeeded =>
        \A g \in 1..Len(http.body.groups) :
            LET group == http.body.groups[g]
                members == {group.items[j].index : j \in 1..Len(group.items)}
                first == CHOOSE i \in members : \A i2 \in members : i <= i2
            IN  /\ members # {}
                /\ group.summary = decoded[first + 1]

\* a group of two images whose responses differ: the summary is the first one
C8_Witness ==
    /\ Succeeded
    /\ \E g \in 1..Len(http.body.groups) :
          LET group == http.body.groups[g]
          IN  /\ group.count >= 2
              /\ decoded[group.items[1].index + 1] # decoded[group.items[2].index + 1]
              /\ group.summary = Fox1

-----------------------------------------------------------------------------
(* C11: what _serialize_gemini_response hands to the grouping *)

\* the handler has just decoded the response the call returned
JustDecoded == gpc = "idle" /\ Returned(g_outcome) /\ decoded # <<>>

\* the result the three tiers give: the JSON value of a str text that parses,
\* {text: raw text} for one that does not, else the structured dump when the
\* response has model_dump, else a text-only mapping
DecodedByTiers ==
    LET response == g_outcome.ret
        result == decoded[Len(decoded)]
    IN  IF DOMAIN response.text = {"json"} THEN result = response.text.json
        ELSE IF DOMAIN response.text = {"garbage"}
        THEN result = PyDict("text" :> [rawtext |-> response.text])
        ELSE IF response.has_model_dump THEN result = PyDict(response.dump)
        ELSE result = PyDict("text" :> response.text)

\* C11: the decoded response is the JSON value of the text when the response
\* has a str text that parses, {text: raw text} when it does not parse, else
\* the structured dump when the response has model_dump, else a text-only
\* mapping; and in every case it is a mapping.
C11_DecodedIsAlwaysMapping ==
    JustDecoded => DecodedByTiers /\ IsDict(decoded[Len(decoded)])

\* the three tiers on their own hold for every response
C11_TiersAsCoded == JustDecoded => DecodedByTiers

-----------------------------------------------------------------------------
(* C12: the process-wide SpeciesNet model *)

\* the model instances the predict calls made so far ran on
InstancesUsed == {models_used[r] : r \in {q \in Reqs : models_used[q] # PyNone}}

\* C12: under every interleaving of concurrent requests SpeciesNet(DEFAULT_MODEL)
\* is constructed at most once in the process, and every predict call runs on
\* that one instance.
C12_ModelConstructedOnce ==
    /\ model_loads <= 1
    /\ Cardinality(InstancesUsed) <= 1

-----------------------------------------------------------------------------
(* C13: a classification with no prediction *)

\* the engine returned a predictions structure whose list is empty or absent
NoPredictions(result) ==
    /\ Returned(result)
    /\ IsDict(result.ret)
    /\ DictGet(result.ret.dict, "predictions") \in {PyNone, PyList(<<>>)}

\* C13: when the engine returns an empty predictions list, summarize_prediction
\* raises instead of returning a summary and the request is answered 500 with
\* the generic check-logs message; a success response is only ever sent for a
\* predictions list with at least one element.
C13_NoPredictionsIsFailure ==
    \A r \in Reqs :
        /\ (apc[r] = "done" /\ NoPredictions(thread_result[r])) =>
              /\ Raised(summarize_prediction(thread_result[r].ret))
              /\ a_http[r].status_code = 500
              /\ a_http[r].detail = "SpeciesNet inference failed. Check server logs for details."
        /\ (apc[r] = "done" /\ a_http[r].status_code = 200) =>
              /\ Returned(thread_result[r])
              /\ IsDict(thread_result[r].ret)
              /\ IsList(DictGet(thread_result[r].ret.dict, "predictions"))
              /\ Len(thread_result[r].ret.dict["predictions"].list) >= 1

\* a request whose engine returned {predictions: []} has been answered 500
C13_Witness ==
    \E r \in Reqs :
        /\ apc[r] = "done"
        /\ thread_result[r] = Return(PyDict("predictions" :> PyList(<<>>)))
        /\ a_http[r].status_code = 500
        /\ a_http[r].detail = INFERENCE_FAILED

-----------------------------------------------------------------------------
(* C14: the order in which a /gemini/analyze request handles its images *)

\* the label image i was grouped under
LabelOf(i) == _derive_group_label(decoded[i + 1].dict, FallbackLabel(i))

\* the input indices listed in a group, in the order listed
IndicesOf(items) == [j \in 1..Len(items) |-> items[j].index]

\* the images handled so far, each under its label: every group lists exactly
\* the images of its label in increasing index, and the groups are ordered by
\* the index of their first image
InInputOrder(groups, keyOf(_), n) ==
    /\ \A g \in 1..Len(groups) :
          LET ix == IndicesOf(groups[g].items)
          IN  /\ ix # <<>>
              /\ \A j, k \in 1..Len(ix) : j < k => ix[j] < ix[k]
              /\ {ix[j] : j \in 1..Len(ix)} = {i \in 0..(n - 1) : LabelOf(i) = keyOf(groups[g])}
    /\ \A g, h \in 1..Len(groups) :
          g < h => groups[g].items[1].index < groups[h].items[1].index

KeyOfEntry(e) == e.key
GroupOfPayload(e) == e.group

\* C14: a call of the LLM is in flight only while the handler awaits it, and
\* the call for image i starts only when the responses of images 0..i-1 have
\* all been decoded and grouped; at every moment, and in the response, the
\* groups are in order of first occurrence of their label and each group's
\* items are in increasing input index.
C14_ImagesHandledInInputOrder ==
    /\ gpc # "idle" => epc = "awaiting"
    /\ epc = "awaiting" => Len(decoded) = index
    /\ epc \in {"awaiting", "next_upload"} =>
          InInputOrder(grouped_results, KeyOfEntry, index)
    /\ Succeeded =>
          InInputOrder(http.body.groups, GroupOfPayload, Len(payload.files))

\* three images answered fox, no label, fox: the response lists the group of
\* images 0 and 2 first and the group of image 1 second
C14_Witness ==
    /\ Succeeded
    /\ Len(http.body.groups) = 2
    /\ IndicesOf(http.body.groups[1].items) = <<0, 2>>
    /\ IndicesOf(http.body.groups[2].items) = <<1>>
    /\ http.body.groups[1].group = PyStr(<<"fox">>)

-----------------------------------------------------------------------------
(* C15: the temp files of concurrent /analyze requests *)

\* between the return of persist_temp_image and the release in the finally
\* clause
InFlight(r) == apc[r] = "awaiting"

\* C15: under every interleaving, no two in-flight requests hold the same temp
\* path, the file of an in-flight request exists whatever the other requests
\* persist or release, and the release of a request removes its own file and
\* no other.
C15_TempFilesAreDisjoint ==
    /\ [](\A r \in Reqs : InFlight(r) => temp_image_path[r] \in disk)
    /\ [](\A r1, r2 \in Reqs :
             (r1 # r2 /\ InFlight(r1) /\ InFlight(r2))
             => temp_image_path[r1] # temp_image_path[r2])
    /\ [][\A r \in Reqs :
             (InFlight(r) /\ ~InFlight(r)')
             => disk' = disk \ {temp_image_path[r]}]_vars

\* one request has released its file while another, whose file has the same
\* suffix, is still in flight with its file in place
C15_Witness ==
    \E r1, r2 \in Reqs :
        /\ r1 # r2
        /\ Completed(apc[r1]) /\ temp_image_path[r1] # PyNone
        /\ InFlight(r2)
        /\ temp_image_path[r1].suffix = temp_image_path[r2].suffix
        /\ temp_image_path[r1] \notin disk
        /\ temp_image_path[r2] \in disk

====
